---- MODULE Spec2Model ----
(***************************************************************************)
(* Model of dev/tasks/utils/tools.js: task-queue membership, multi-task    *)
(* configuration, the memoized git views, and the short GitHub reference   *)
(* helpers.  JavaScript strings are sequences of one-character strings.    *)
(***************************************************************************)
EXTENDS Integers, Sequences, FiniteSets, TLC

VARIABLES
    cliTasks,      \* grunt.cli.tasks
    defaultTask,   \* grunt.task._tasks.default
    mergeArrays,   \* how grunt.config.merge treats two arrays
    configData,    \* the data behind grunt.config
    gitignore,     \* the file .gitignore
    workTree,      \* what `git diff-index --name-only HEAD` prints now
    dirtyFiles,    \* module variable dirtyFiles
    ignoreList,    \* module variable ignoreList
    op,            \* the function called last
    arg,           \* its arguments
    ret,           \* its outcome
    shell,         \* the commands it handed to sh.exec
    reads,         \* the files it read through grunt.file.read
    nCalls         \* calls made so far in this process

vars == <<cliTasks, defaultTask, mergeArrays, configData, gitignore, workTree,
          dirtyFiles, ignoreList, op, arg, ret, shell, reads, nCalls>>

env == <<cliTasks, defaultTask, mergeArrays>>

----------------------------------------------------------------------------
\* Bounds

MaxTail == 4
MaxDeps == 2
MaxQueue == 2
MaxMembers == 2
MaxSetupCalls == 2

----------------------------------------------------------------------------
\* Strings

SeqsUpTo(S, n) == UNION { [1..k -> S] : k \in 0..n }

StartsWith(s, p) == Len(s) >= Len(p) /\ SubSeq(s, 1, Len(p)) = p

Drop(s, n) == SubSeq(s, n + 1, Len(s))

\* Array.prototype.indexOf( x ) > -1
ArrayHas(a, x) == \E i \in DOMAIN a : a[i] = x

\* String.prototype.indexOf( needle ) > -1
StringHas(s, needle) ==
    \E i \in 0..(Len(s) - Len(needle)) : SubSeq(s, i + 1, i + Len(needle)) = needle

\* Array.prototype.join( sep )
RECURSIVE Join(_, _)
Join(parts, sep) ==
    IF parts = <<>> THEN <<>>
    ELSE IF Len(parts) = 1 THEN parts[1]
    ELSE parts[1] \o sep \o Join(Tail(parts), sep)

\* Length of the longest prefix of s that has no character of Stop.
RECURSIVE RunLen(_, _)
RunLen(s, Stop) ==
    IF s = <<>> \/ Head(s) \in Stop THEN 0 ELSE 1 + RunLen(Tail(s), Stop)

\* The characters "." does not match.
LineTerminators == {"\n", "\r"}

RepoPrefix == <<"c", "k", "e", "d", "i", "t", "o", "r", "/">>
DepPrefix == <<"c", "k", "e", "d", "i", "t", "o", "r", "5", "-">>
DefaultName == <<"d", "e", "f", "a", "u", "l", "t">>
CdCmd == <<"c", "d", " ">>
CloneCmd == <<"g", "i", "t", " ", "c", "l", "o", "n", "e", " ", "g", "i", "t", "@", "g", "i", "t", "h", "u", "b", ".", "c", "o", "m", ":">>
CheckoutCmd == <<"g", "i", "t", " ", "c", "h", "e", "c", "k", "o", "u", "t", " ">>
AndSep == <<" ", "&", "&", " ">>
DiffCmd == <<"g", "i", "t", " ", "d", "i", "f", "f", "-", "i", "n", "d", "e", "x", " ", "-", "-", "n", "a", "m", "e", "-", "o", "n", "l", "y", " ", "H", "E", "A", "D">>

----------------------------------------------------------------------------
\* repositoryRegExp = /^(ckeditor\/[^#]+)(?:#)?(.*)/

NoMatch == [matched |-> FALSE, m1 |-> <<>>, m2 |-> <<>>]

\* [^#]+ with no lower bound: the group may be empty.
repositoryRegExpEmptyRepo(s) ==
    IF ~StartsWith(s, RepoPrefix) THEN NoMatch
    ELSE LET rest == Drop(s, Len(RepoPrefix))
             n == RunLen(rest, {"#"})
             after == Drop(rest, n)
             suffix == IF after # <<>> /\ Head(after) = "#" THEN Tail(after) ELSE after
         IN  [matched |-> TRUE,
              m1 |-> RepoPrefix \o SubSeq(rest, 1, n),
              m2 |-> SubSeq(suffix, 1, RunLen(suffix, LineTerminators))]

\* String.prototype.match( repositoryRegExp ): the greedy [^#]+ takes every
\* character up to the first "#", the optional "#" is taken when present and
\* (.*) runs up to the first line terminator.  Nothing after the first group
\* can fail, so there is no backtracking.
repositoryRegExp(s) ==
    IF ~StartsWith(s, RepoPrefix) THEN NoMatch
    ELSE LET rest == Drop(s, Len(RepoPrefix))
             n == RunLen(rest, {"#"})
             after == Drop(rest, n)
             suffix == IF after # <<>> /\ Head(after) = "#" THEN Tail(after) ELSE after
         IN  IF n = 0 THEN NoMatch
             ELSE [matched |-> TRUE,
                   m1 |-> RepoPrefix \o SubSeq(rest, 1, n),
                   m2 |-> SubSeq(suffix, 1, RunLen(suffix, LineTerminators))]

----------------------------------------------------------------------------
\* shExec

\* shExec( command ) when sh.exec ends with the given code and output.
shExec(command, code, output) ==
    IF code # 0 THEN [threw |-> TRUE, value |-> <<>>]
    ELSE [threw |-> FALSE, value |-> output]

ExitCodes == {0, 1}

----------------------------------------------------------------------------
\* cloneRepository

\* The checkout steps pushed whatever the second group holds.
cloneCommandsAlwaysCheckout(name, match, location) ==
    <<CdCmd \o location, CloneCmd \o match.m1,
      CdCmd \o name, CheckoutCmd \o match.m2>>

\* The array cloneCommands built inside the if.
cloneCommands(name, match, location) ==
    LET base == <<CdCmd \o location, CloneCmd \o match.m1>>
    IN  IF match.m2 # <<>>
        THEN Append(Append(base, CdCmd \o name), CheckoutCmd \o match.m2)
        ELSE base

Names == { <<"n">> }
Locations == { <<".", ".">> }
UrlHeads == { RepoPrefix, SubSeq(RepoPrefix, 1, 8), <<"x">> \o RepoPrefix, <<>> }
UrlTailChars == {"f", "#", "\n"}
Urls == { h \o t : h \in UrlHeads, t \in SeqsUpTo(UrlTailChars, MaxTail) }

cloneRepository(name, gitHubUrl, location) ==
    LET match == repositoryRegExp(gitHubUrl)
    IN  /\ op' = "cloneRepository"
        /\ arg' = [name |-> name, gitHubUrl |-> gitHubUrl, location |-> location]
        /\ IF match.matched /\ match.m1 # <<>>
           THEN \E code \in ExitCodes :
                  LET command == Join(cloneCommands(name, match, location), AndSep)
                  IN  /\ shell' = <<command>>
                      /\ ret' = [threw |-> shExec(command, code, <<>>).threw,
                                 match |-> match,
                                 steps |-> Len(cloneCommands(name, match, location))]
           ELSE /\ shell' = <<>>
                /\ ret' = [threw |-> FALSE, match |-> match, steps |-> 0]
        /\ reads' = <<>>
        /\ UNCHANGED <<env, configData, gitignore, workTree, dirtyFiles,
                       ignoreList, nCalls>>

----------------------------------------------------------------------------
\* getCKEditorDependencies

Null == [null |-> TRUE, obj |-> <<>>]

\* Object.keys( o ) as a sequence.
RECURSIVE SetToSeq(_)
SetToSeq(S) ==
    IF S = {} THEN <<>>
    ELSE LET x == CHOOSE y \in S : TRUE IN <<x>> \o SetToSeq(S \ {x})

ObjectKeys(o) == SetToSeq(DOMAIN o)

\* /^ckeditor5-/.test( key )
DepRegexp(key) == StartsWith(key, DepPrefix)

\* The forEach body run over keys, starting from an empty object.
RECURSIVE CollectFromEmpty(_, _, _)
CollectFromEmpty(keys, dependencies, result) ==
    IF keys = <<>> THEN [null |-> FALSE, obj |-> result.obj]
    ELSE LET key == Head(keys)
         IN  IF DepRegexp(key) /\ repositoryRegExp(dependencies[key]).matched
             THEN CollectFromEmpty(Tail(keys), dependencies,
                      [null |-> FALSE, obj |-> (key :> dependencies[key]) @@ result.obj])
             ELSE CollectFromEmpty(Tail(keys), dependencies, result)

\* The forEach body run over keys, result being the accumulator.
RECURSIVE CollectDependencies(_, _, _)
CollectDependencies(keys, dependencies, result) ==
    IF keys = <<>> THEN result
    ELSE LET key == Head(keys)
         IN  IF DepRegexp(key) /\ repositoryRegExp(dependencies[key]).matched
             THEN CollectDependencies(Tail(keys), dependencies,
                      [null |-> FALSE, obj |-> (key :> dependencies[key]) @@ result.obj])
             ELSE CollectDependencies(Tail(keys), dependencies, result)

DepKeys == { DepPrefix \o <<"a">>, DepPrefix, SubSeq(DepPrefix, 1, 9),
             <<"x">> \o DepPrefix \o <<"a">>, <<"l">> }
DepValues == { RepoPrefix \o <<"f">>, RepoPrefix \o <<"f", "#", "v">>,
               RepoPrefix \o <<"#", "v">>, RepoPrefix,
               <<"o", "/", "f">>, <<"^", "4">> }
DependencyMaps ==
    UNION { [K -> DepValues] : K \in { K \in SUBSET DepKeys : Cardinality(K) <= MaxDeps } }

\* dependencies.defined = FALSE stands for a call without the argument.
getCKEditorDependencies(dependencies) ==
    /\ op' = "getCKEditorDependencies"
    /\ arg' = dependencies
    /\ ret' = IF dependencies.defined
              THEN CollectDependencies(ObjectKeys(dependencies.obj), dependencies.obj, Null)
              ELSE Null
    /\ shell' = <<>>
    /\ reads' = <<>>
    /\ UNCHANGED <<env, configData, gitignore, workTree, dirtyFiles,
                   ignoreList, nCalls>>

----------------------------------------------------------------------------
\* checkTaskInQueue

AliasHead == <<"A", "l", "i", "a", "s", " ", "f", "o", "r", " ", "\"">>
AliasSep == <<"\"", ",", " ", "\"">>
AliasTail == <<"\"", " ", "t", "a", "s", "k">>

\* The info Grunt records for registerTask( 'default', members ): the member
\* names in double quotes, separated by commas.
AliasInfo(members) ==
    AliasHead \o Join(members, AliasSep) \o AliasTail
        \o (IF Len(members) = 1 THEN <<>> ELSE <<"s">>) \o <<".">>

\* The info of registerTask( 'default', description, members ).
Description == <<"L", "i", "n", "t", ".">>

Quoted(task) == <<"\"">> \o task \o <<"\"">>

\* grunt.task._tasks.default is read only when isDefaultTask holds (&& does
\* not evaluate its right side otherwise); reading .info of undefined throws
\* a TypeError.
checkTaskInQueue(grunt, task) ==
    LET isDirectCall == ArrayHas(grunt.cliTasks, task)
        isDefaultTask == ArrayHas(grunt.cliTasks, DefaultName) \/ Len(grunt.cliTasks) = 0
    IN  IF isDefaultTask /\ ~grunt.defaultTask.defined
        THEN [threw |-> TRUE, value |-> FALSE]
        ELSE [threw |-> FALSE,
              value |-> isDirectCall
                          \/ (isDefaultTask
                                /\ StringHas(grunt.defaultTask.info, Quoted(task)))]

\* The parts of the grunt object the functions read.
Grunt == [cliTasks |-> cliTasks, defaultTask |-> defaultTask]

CheckTaskInQueue(task) ==
    /\ op' = "checkTaskInQueue"
    /\ arg' = task
    /\ ret' = checkTaskInQueue(Grunt, task)
    /\ shell' = <<>>
    /\ reads' = <<>>
    /\ UNCHANGED <<env, configData, gitignore, workTree, dirtyFiles,
                   ignoreList, nCalls>>

----------------------------------------------------------------------------
\* getGitIgnore and getGitDirtyFiles

Undefined == [kind |-> "undefined", v |-> <<>>]
Array(a) == [kind |-> "array", v |-> a]

Object(f) == [kind |-> "object", v |-> f]
String(t) == [kind |-> "string", v |-> t]

\* An empty array taken for a falsy value.
TruthyWhenFilled(x) == x.kind \in {"array", "string"} /\ x.v # <<>>

\* !!x: undefined and the empty string are falsy; every array and object,
\* the empty array included, is truthy.
Truthy(x) == x.kind \in {"array", "object"} \/ (x.kind = "string" /\ x.v # <<>>)

Whitespace == {" ", "\t", "\n", "\r"}

\* .replace( /^#.*$/gm, '' ): atStart tells that s begins a line.
RECURSIVE RemoveComments(_, _)
RemoveComments(s, atStart) ==
    IF s = <<>> THEN <<>>
    ELSE IF atStart /\ Head(s) = "#"
         THEN RemoveComments(Drop(s, RunLen(s, LineTerminators)), FALSE)
         ELSE <<Head(s)>> \o RemoveComments(Tail(s), Head(s) \in LineTerminators)

\* Length of the run of "\n" that s starts with.
RECURSIVE NewlineRun(_)
NewlineRun(s) ==
    IF s = <<>> \/ Head(s) # "\n" THEN 0 ELSE 1 + NewlineRun(Tail(s))

\* .split( /\n+/ ) when greedy, .split( '\n' ) otherwise.
RECURSIVE Split(_, _)
Split(s, greedy) ==
    LET n == RunLen(s, {"\n"})
        rest == Drop(s, n)
    IN  IF rest = <<>> THEN <<s>>
        ELSE <<SubSeq(s, 1, n)>>
               \o Split(Drop(rest, IF greedy THEN NewlineRun(rest) ELSE 1), greedy)

\* .replace( /\s*$/, '' )
RECURSIVE TrimEnd(_)
TrimEnd(s) ==
    IF s # <<>> /\ s[Len(s)] \in Whitespace
    THEN TrimEnd(SubSeq(s, 1, Len(s) - 1))
    ELSE s

NonEmpty(path) == path # <<>>

\* The array made of the text of .gitignore.
ParseGitIgnore(text) ==
    SelectSeq(Split(RemoveComments(text, TRUE), TRUE), NonEmpty)

\* The array made of the output of git diff-index.
ParseDirtyFiles(output) ==
    LET files == Split(TrimEnd(output), FALSE)
    IN  IF Len(files) = 1 /\ files[1] = <<>> THEN <<>> ELSE files

GitIgnorePath == <<".", "g", "i", "t", "i", "g", "n", "o", "r", "e">>

\* getGitIgnore( grunt ) with the module variable holding list and the file
\* being file: the outcome, the new value of the variable, the files read.
\* grunt.file.read throws when the file cannot be read.
getGitIgnore(list, file) ==
    IF Truthy(list)
    THEN [threw |-> FALSE, value |-> list.v, list |-> list, reads |-> <<>>]
    ELSE IF ~file.exists
    THEN [threw |-> TRUE, value |-> <<>>, list |-> list, reads |-> <<GitIgnorePath>>]
    ELSE [threw |-> FALSE,
          value |-> ParseGitIgnore(file.text),
          list |-> Array(ParseGitIgnore(file.text)),
          reads |-> <<GitIgnorePath>>]

\* getGitDirtyFiles() with the module variable holding list, sh.exec ending
\* with code and printing output.
getGitDirtyFiles(list, code, output) ==
    IF Truthy(list)
    THEN [threw |-> FALSE, value |-> list.v, list |-> list, shell |-> <<>>]
    ELSE IF shExec(DiffCmd, code, output).threw
    THEN [threw |-> TRUE, value |-> <<>>, list |-> list, shell |-> <<DiffCmd>>]
    ELSE [threw |-> FALSE,
          value |-> ParseDirtyFiles(shExec(DiffCmd, code, output).value),
          list |-> Array(ParseDirtyFiles(shExec(DiffCmd, code, output).value)),
          shell |-> <<DiffCmd>>]

GetGitIgnore ==
    LET r == getGitIgnore(ignoreList, gitignore)
    IN  /\ op' = "getGitIgnore"
        /\ arg' = <<>>
        /\ ret' = [threw |-> r.threw, value |-> r.value]
        /\ ignoreList' = r.list
        /\ reads' = r.reads
        /\ shell' = <<>>
        /\ UNCHANGED <<env, configData, gitignore, workTree, dirtyFiles, nCalls>>

GetGitDirtyFiles ==
    \E code \in ExitCodes :
        LET r == getGitDirtyFiles(dirtyFiles, code, workTree)
        IN  /\ op' = "getGitDirtyFiles"
            /\ arg' = <<>>
            /\ ret' = [threw |-> r.threw, value |-> r.value]
            /\ dirtyFiles' = r.list
            /\ shell' = r.shell
            /\ reads' = <<>>
            /\ UNCHANGED <<env, configData, gitignore, workTree, ignoreList, nCalls>>

\* Something outside the process rewrites or removes .gitignore.
WriteGitIgnore(file) ==
    /\ gitignore' = file
    /\ gitignore' # gitignore
    /\ op' = "write"
    /\ arg' = <<>>
    /\ ret' = <<>>
    /\ shell' = <<>>
    /\ reads' = <<>>
    /\ UNCHANGED <<env, configData, workTree, dirtyFiles, ignoreList, nCalls>>

\* Something outside the process changes what differs from HEAD.
ChangeWorkTree(output) ==
    /\ workTree' = output
    /\ workTree' # workTree
    /\ op' = "change"
    /\ arg' = <<>>
    /\ ret' = <<>>
    /\ shell' = <<>>
    /\ reads' = <<>>
    /\ UNCHANGED <<env, configData, gitignore, dirtyFiles, ignoreList, nCalls>>

----------------------------------------------------------------------------
\* grunt.config

OptionsName == <<"o", "p", "t", "i", "o", "n", "s">>
AllName == <<"a", "l", "l">>
DotOptionsDot == <<".">> \o OptionsName \o <<".">>

\* A property path split at its dots.
RECURSIVE PathKeys(_)
PathKeys(path) ==
    LET n == RunLen(path, {"."})
    IN  IF n = Len(path) THEN <<path>>
        ELSE <<SubSeq(path, 1, n)>> \o PathKeys(Drop(path, n + 1))

Props(o) == IF o.kind = "object" THEN o.v ELSE <<>>

GetProp(o, key) == IF key \in DOMAIN Props(o) THEN o.v[key] ELSE Undefined

RECURSIVE GetKeys(_, _)
GetKeys(o, keys) ==
    IF keys = <<>> THEN o ELSE GetKeys(GetProp(o, Head(keys)), Tail(keys))

RECURSIVE SetKeys(_, _, _)
SetKeys(o, keys, value) ==
    IF keys = <<>> THEN value
    ELSE Object((Head(keys) :> SetKeys(GetProp(o, Head(keys)), Tail(keys), value))
                  @@ Props(o))

\* grunt.config.get( prop )
ConfigGet(data, prop) == GetKeys(data, PathKeys(prop))

\* grunt.config.set( prop, value ): missing objects on the way are created.
ConfigSet(data, prop, value) == SetKeys(data, PathKeys(prop), value)

Max(a, b) == IF a >= b THEN a ELSE b

\* The merge behind grunt.config.merge: objects are merged key by key,
\* undefined source values are skipped, other values replace; two arrays are
\* merged index by index (mode "index") or the source replaces (mode "replace").
RECURSIVE Merge(_, _, _)
Merge(dst, src, mode) ==
    IF src.kind = "object"
    THEN Object([k \in DOMAIN Props(dst) \cup DOMAIN src.v |->
                   IF k \in DOMAIN src.v
                   THEN Merge(GetProp(dst, k), src.v[k], mode)
                   ELSE dst.v[k]])
    ELSE IF src.kind = "array" /\ dst.kind = "array" /\ mode = "index"
    THEN Array([i \in 1..Max(Len(dst.v), Len(src.v)) |->
                   IF i <= Len(src.v) THEN src.v[i] ELSE dst.v[i]])
    ELSE IF src.kind = "undefined" THEN dst
    ELSE src

\* The task's entry replaced by the new configuration instead of merged.
ConfigReplace(data, taskConfig, mode) ==
    Object(taskConfig.v @@ Props(data))

\* grunt.config.merge( taskConfig )
ConfigMerge(data, taskConfig, mode) == Merge(data, taskConfig, mode)

----------------------------------------------------------------------------
\* setupMultitaskConfig

TaskTarget(task, target) == task \o <<":">> \o target

\* What the thunk options.targets[ target ] returns.
ThunkValue(task, target) == String(TaskTarget(task, target))

\* The loop's variables before the first target.
LoopStart(defaultOptions) ==
    [config |-> (OptionsName :> defaultOptions), isAll |-> TRUE,
     calls |-> <<>>, threw |-> FALSE]

\* The thunk invoked before the queue is asked.
ConfigureTargetEager(grunt, task, target, acc) ==
    IF acc.threw THEN acc
    ELSE LET queued == checkTaskInQueue(grunt, TaskTarget(task, target))
         IN  IF queued.threw THEN [acc EXCEPT !.threw = TRUE]
             ELSE IF queued.value
             THEN [config |-> (target :> ThunkValue(task, target)) @@ acc.config,
                   isAll |-> FALSE,
                   calls |-> Append(acc.calls, target),
                   threw |-> FALSE]
             ELSE [acc EXCEPT !.calls = Append(acc.calls, target)]

\* isAll left true by a configured target.
ConfigureTargetKeepAll(grunt, task, target, acc) ==
    IF acc.threw THEN acc
    ELSE LET queued == checkTaskInQueue(grunt, TaskTarget(task, target))
         IN  IF queued.threw THEN [acc EXCEPT !.threw = TRUE]
             ELSE IF queued.value
             THEN [config |-> (target :> ThunkValue(task, target)) @@ acc.config,
                   isAll |-> acc.isAll,
                   calls |-> Append(acc.calls, target),
                   threw |-> FALSE]
             ELSE acc

\* The forEach callback: calls lists the thunks invoked so far; a throw of
\* checkTaskInQueue ends the loop.
ConfigureTarget(grunt, task, target, acc) ==
    IF acc.threw THEN acc
    ELSE LET queued == checkTaskInQueue(grunt, TaskTarget(task, target))
         IN  IF queued.threw THEN [acc EXCEPT !.threw = TRUE]
             ELSE IF queued.value
             THEN [config |-> (target :> ThunkValue(task, target)) @@ acc.config,
                   isAll |-> FALSE,
                   calls |-> Append(acc.calls, target),
                   threw |-> FALSE]
             ELSE acc

RECURSIVE ForEachTarget(_, _, _, _)
ForEachTarget(grunt, task, targets, acc) ==
    IF targets = <<>> THEN acc
    ELSE ForEachTarget(grunt, task, Tail(targets),
                       ConfigureTarget(grunt, task, Head(targets), acc))

\* if ( isAll ) config.all = all()
UseAll(task, acc) ==
    IF acc.isAll
    THEN [acc EXCEPT !.config = (AllName :> ThunkValue(task, AllName)) @@ acc.config,
                     !.calls = Append(acc.calls, AllName)]
    ELSE acc

NotAll(target) == target # AllName

\* grunt.config.get( ignoreProp ) || []
OrEmptyArray(value) == IF Truthy(value) THEN value ELSE Array(<<>>)

\* The .gitignore entries stored in place of the ignores read.
ReplaceIgnores(ignores, list) == Array(list)

\* ignores.concat( this.getGitIgnore( grunt ) )
ConcatIgnores(ignores, list) == Array(ignores.v \o list)

\* setupMultitaskConfig( grunt, options ) with grunt.config holding data, the
\* module variable ignoreList holding list and .gitignore being file: the
\* outcome, the new data and list, the files read, the thunks invoked and the
\* taskConfig built.
setupMultitaskConfig(grunt, options, data, list, file, mode) ==
    LET task == options.task
        targets == SelectSeq(options.targets, NotAll)
        looped == ForEachTarget(grunt, task, targets, LoopStart(options.defaultOptions))
        done == UseAll(task, looped)
        taskConfig == Object(task :> Object(done.config))
        ignoreProp == task \o DotOptionsDot \o options.addGitIgnore.v
        ignores == OrEmptyArray(ConfigGet(data, ignoreProp))
        git == getGitIgnore(list, file)
    IN  IF looped.threw
        THEN [threw |-> TRUE, at |-> "checkTaskInQueue", data |-> data, list |-> list,
              reads |-> <<>>, calls |-> looped.calls, taskConfig |-> Undefined]
        ELSE IF ~Truthy(options.addGitIgnore)
        THEN [threw |-> FALSE, at |-> "", data |-> ConfigMerge(data, taskConfig, mode),
              list |-> list, reads |-> <<>>, calls |-> done.calls,
              taskConfig |-> taskConfig]
        ELSE IF git.threw
        THEN [threw |-> TRUE, at |-> "getGitIgnore", data |-> data, list |-> git.list,
              reads |-> git.reads, calls |-> done.calls, taskConfig |-> taskConfig]
        ELSE [threw |-> FALSE, at |-> "",
              data |-> ConfigMerge(ConfigSet(data, ignoreProp,
                                             ConcatIgnores(ignores, git.value)),
                                   taskConfig, mode),
              list |-> git.list, reads |-> git.reads, calls |-> done.calls,
              taskConfig |-> taskConfig]

SetupMultitaskConfig(options) ==
    LET r == setupMultitaskConfig(Grunt, options, configData, ignoreList, gitignore,
                                  mergeArrays)
    IN  /\ op' = "setupMultitaskConfig"
        /\ arg' = options
        /\ ret' = [threw |-> r.threw, at |-> r.at, calls |-> r.calls,
                   taskConfig |-> r.taskConfig, before |-> configData]
        /\ configData' = r.data
        /\ ignoreList' = r.list
        /\ reads' = r.reads
        /\ shell' = <<>>
        /\ nCalls' = nCalls + 1
        /\ UNCHANGED <<env, gitignore, workTree, dirtyFiles>>

----------------------------------------------------------------------------
\* The state of a process that has called nothing yet.

NoDefaultTask == [defined |-> FALSE, info |-> <<>>, members |-> <<>>]

Idle ==
    /\ op = "init"
    /\ arg = <<>>
    /\ ret = <<>>
    /\ shell = <<>>
    /\ reads = <<>>
    /\ nCalls = 0
    /\ dirtyFiles = Undefined
    /\ ignoreList = Undefined

----------------------------------------------------------------------------
\* The repository reference helpers on their own.

InitRepo ==
    /\ Idle
    /\ cliTasks = <<>>
    /\ defaultTask = NoDefaultTask
    /\ mergeArrays = "index"
    /\ configData = Object(<<>>)
    /\ gitignore = [exists |-> FALSE, text |-> <<>>]
    /\ workTree = <<>>

NextRepo ==
    \/ op = "init" /\ \E name \in Names, gitHubUrl \in Urls, location \in Locations :
         cloneRepository(name, gitHubUrl, location)
    \/ op = "init" /\ \E D \in DependencyMaps :
         getCKEditorDependencies([defined |-> TRUE, obj |-> D])
    \/ op = "init" /\ getCKEditorDependencies([defined |-> FALSE, obj |-> <<>>])

SpecRepo == InitRepo /\ [][NextRepo]_vars

\* Index of the first character of s that is in C, 0 when there is none.
FirstIndex(s, C) ==
    IF \E i \in DOMAIN s : s[i] \in C
    THEN CHOOSE i \in DOMAIN s : s[i] \in C /\ \A j \in 1..(i - 1) : s[j] \notin C
    ELSE 0

\* s is "ckeditor/" followed by at least one character that is not "#".
ValidReference(s) ==
    /\ StartsWith(s, RepoPrefix)
    /\ Len(s) > Len(RepoPrefix)
    /\ s[Len(RepoPrefix) + 1] # "#"

BeforeHash(s) ==
    IF FirstIndex(s, {"#"}) = 0 THEN s ELSE SubSeq(s, 1, FirstIndex(s, {"#"}) - 1)

AfterHash(s) ==
    IF FirstIndex(s, {"#"}) = 0 THEN <<>> ELSE Drop(s, FirstIndex(s, {"#"}))

FirstLine(s) ==
    IF FirstIndex(s, LineTerminators) = 0 THEN s
    ELSE SubSeq(s, 1, FirstIndex(s, LineTerminators) - 1)

\* s matches ^ckeditor/[^#]+(#.*)?$
MatchesAnchoredPattern(s) ==
    /\ ValidReference(s)
    /\ \A i \in DOMAIN s : i > FirstIndex(s, {"#"}) /\ FirstIndex(s, {"#"}) # 0
                             => s[i] \notin LineTerminators

\* C5: getCKEditorDependencies returns exactly the entries whose key starts
\* with "ckeditor5-" and whose value is a valid reference, with their values,
\* and null (never an empty object) when there is none or no argument.
C5_FilteredDependencies ==
    op = "getCKEditorDependencies" =>
        LET Q == IF arg.defined
                 THEN { k \in DOMAIN arg.obj :
                          StartsWith(k, DepPrefix) /\ ValidReference(arg.obj[k]) }
                 ELSE {}
        IN  IF Q = {} THEN ret = Null
            ELSE /\ ret.null = FALSE
                 /\ DOMAIN ret.obj = Q
                 /\ \A k \in Q : ret.obj[k] = arg.obj[k]

C5_Witness ==
    /\ op = "getCKEditorDependencies"
    /\ arg.defined
    /\ ret.null = FALSE
    /\ Cardinality(DOMAIN arg.obj) > Cardinality(DOMAIN ret.obj)

\* C6 as stated: a reference is parsed exactly when the string matches
\* ^ckeditor/[^#]+(#.*)?$, repoPath is the part before the first "#" and ref
\* is the text after it.
C6_AnchoredPattern ==
    op = "cloneRepository" =>
        /\ ret.match.matched <=> MatchesAnchoredPattern(arg.gitHubUrl)
        /\ ret.match.matched =>
             /\ ret.match.m1 = BeforeHash(arg.gitHubUrl)
             /\ ret.match.m2 = AfterHash(arg.gitHubUrl)

\* C6 amended: a reference is parsed exactly when the string starts with
\* "ckeditor/" followed by a character other than "#"; repoPath is the part
\* before the first "#" and ref is the text after that "#" up to the first
\* line terminator (empty without a "#").
C6_PrefixPattern ==
    op = "cloneRepository" =>
        /\ ret.match.matched <=> ValidReference(arg.gitHubUrl)
        /\ ret.match.matched =>
             /\ ret.match.m1 = BeforeHash(arg.gitHubUrl)
             /\ ret.match.m2 = FirstLine(AfterHash(arg.gitHubUrl))

C6_Witness ==
    /\ op = "cloneRepository"
    /\ ret.match.matched
    /\ ret.match.m2 # <<>>
    /\ ret.match.m2 # AfterHash(arg.gitHubUrl)

\* C7: cloneRepository runs one compound command, cd location && clone of
\* repoPath, followed by cd name && checkout ref exactly when ref is not
\* empty; it runs nothing when the reference does not parse.
C7_CloneCommands ==
    op = "cloneRepository" =>
        LET url == arg.gitHubUrl
            ref == FirstLine(AfterHash(url))
            first == CdCmd \o arg.location \o AndSep \o CloneCmd \o BeforeHash(url)
            second == AndSep \o CdCmd \o arg.name \o AndSep \o CheckoutCmd \o ref
        IN  IF ~ValidReference(url) THEN shell = <<>> /\ ret.steps = 0
            ELSE IF ref = <<>> THEN shell = <<first>> /\ ret.steps = 2
            ELSE shell = <<first \o second>> /\ ret.steps = 4

C7_Witness ==
    /\ op = "cloneRepository"
    /\ ret.steps = 4
    /\ Len(shell) = 1
    /\ ~ret.threw

----------------------------------------------------------------------------
\* checkTaskInQueue on its own.

TaskJ == <<"j">>
TaskK == <<"k">>
TargetG == <<"g">>
TargetM == <<"m">>
MemberIds == { TaskTarget(TaskJ, TargetG), TaskTarget(TaskJ, TargetM),
               TaskTarget(TaskK, TargetG) }
QueueIds == MemberIds \cup { DefaultName, TaskJ }
AskedIds == QueueIds \cup { <<",", " ">>, TaskJ \o <<":">>,
                            TaskTarget(TaskJ, TargetG) \o AliasSep
                                \o TaskTarget(TaskJ, TargetM) }

\* What grunt.task._tasks.default can be: missing, an alias with the
\* generated info, or an alias registered with a description.
DefaultTasks(n) ==
    { NoDefaultTask }
      \cup { [defined |-> TRUE, info |-> AliasInfo(m), members |-> m] :
               m \in SeqsUpTo(MemberIds, n) }
      \cup { [defined |-> TRUE, info |-> Description, members |-> m] :
               m \in SeqsUpTo(MemberIds, n) }

InitQueue ==
    /\ Idle
    /\ cliTasks \in SeqsUpTo(QueueIds, MaxQueue)
    /\ defaultTask \in DefaultTasks(MaxMembers)
    /\ mergeArrays = "index"
    /\ configData = Object(<<>>)
    /\ gitignore = [exists |-> FALSE, text |-> <<>>]
    /\ workTree = <<>>

NextQueue == \E task \in AskedIds : CheckTaskInQueue(task)

SpecQueue == InitQueue /\ [][NextQueue]_vars

\* C1: checkTaskInQueue( T ) is true exactly when T is in the queue, or the
\* queue is empty or holds "default" and T is a member of the default task.
C1_QueuedIffMember ==
    (op = "checkTaskInQueue" /\ defaultTask.defined) =>
        /\ ~ret.threw
        /\ ret.value <=>
             \/ ArrayHas(cliTasks, arg)
             \/ /\ cliTasks = <<>> \/ ArrayHas(cliTasks, DefaultName)
                /\ ArrayHas(defaultTask.members, arg)

\* C8: without a default task definition checkTaskInQueue does not throw and
\* answers whether the task is directly in the queue.
C8_NoDefaultNoError ==
    (op = "checkTaskInQueue" /\ ~defaultTask.defined) =>
        /\ ~ret.threw
        /\ ret.value <=> ArrayHas(cliTasks, arg)

----------------------------------------------------------------------------
\* The memoized git views while the files change under the process.

GitIgnoreTexts == { <<>>,
                    <<"#", "c", "\n", "\n", "n", "\n", "b", "\n">>,
                    <<"n", "\n", "#", "\n">>,
                    <<"b", "#">>,
                    <<"#", "c">> }
GitIgnoreFiles == { [exists |-> FALSE, text |-> <<>>] }
                    \cup { [exists |-> TRUE, text |-> t] : t \in GitIgnoreTexts }
DiffOutputs == { <<>>, <<"\n">>, <<"a", "\n">>, <<"a", "\n", "b", "\n">>, <<" ", "a", " ", "\n">> }

InitGit ==
    /\ Idle
    /\ cliTasks = <<>>
    /\ defaultTask = NoDefaultTask
    /\ mergeArrays = "index"
    /\ configData = Object(<<>>)
    /\ gitignore \in GitIgnoreFiles
    /\ workTree \in DiffOutputs

NextGit ==
    \/ GetGitIgnore
    \/ GetGitDirtyFiles
    \/ \E file \in GitIgnoreFiles : WriteGitIgnore(file)
    \/ \E output \in DiffOutputs : ChangeWorkTree(output)

SpecGit == InitGit /\ [][NextGit]_vars

\* C4: once a memoized list is an array it never changes, and a later call
\* returns it without running the diff command or reading .gitignore, the
\* empty array included.
C4_MemoizedOnce ==
    [][ /\ dirtyFiles.kind = "array" => dirtyFiles' = dirtyFiles
        /\ ignoreList.kind = "array" => ignoreList' = ignoreList
        /\ (dirtyFiles.kind = "array" /\ op' = "getGitDirtyFiles") =>
              /\ shell' = <<>>
              /\ ret' = [threw |-> FALSE, value |-> dirtyFiles.v]
        /\ (ignoreList.kind = "array" /\ op' = "getGitIgnore") =>
              /\ reads' = <<>>
              /\ ret' = [threw |-> FALSE, value |-> ignoreList.v]
      ]_vars

C4_Witness ==
    /\ op = "getGitDirtyFiles"
    /\ shell = <<>>
    /\ dirtyFiles = Array(<<>>)
    /\ ret = [threw |-> FALSE, value |-> <<>>]
    /\ ParseDirtyFiles(workTree) # <<>>
    /\ ignoreList = Array(<<>>)
    /\ gitignore.exists /\ ParseGitIgnore(gitignore.text) # <<>>

----------------------------------------------------------------------------
\* Multi-tasks configured one after another in one process.

IgnoresName == <<"i">>
RcName == <<"r">>
Tasks == { TaskJ, TaskK }

\* The configuration gruntfile.js gives before the tasks are loaded.
InitConfig ==
    Object(TaskJ :> Object(
        (OptionsName :> Object((IgnoresName :> Array(<< <<"l">> >>))
                                 @@ (RcName :> Array(<< <<"x">> >>))))
          @@ (TargetM :> String(<<"o", "l", "d">>))))

SetupQueues == { <<>>, <<DefaultName>>, <<TaskTarget(TaskJ, TargetG)>>,
                 <<TaskTarget(TaskK, TargetM), TaskTarget(TaskJ, AllName)>> }

SetupDefaultTasks ==
    { NoDefaultTask,
      [defined |-> TRUE, info |-> AliasInfo(<<TaskTarget(TaskJ, TargetG)>>),
       members |-> <<TaskTarget(TaskJ, TargetG)>>],
      [defined |-> TRUE,
       info |-> AliasInfo(<<TaskTarget(TaskJ, TargetM), TaskTarget(TaskK, TargetG)>>),
       members |-> <<TaskTarget(TaskJ, TargetM), TaskTarget(TaskK, TargetG)>>] }

SetupFiles == { [exists |-> FALSE, text |-> <<>>],
                [exists |-> TRUE, text |-> <<"#", "c", "\n", "n", "\n", "b", "\n">>] }

TargetLists == { <<AllName>>, <<TargetG, AllName>>, <<AllName, TargetM, TargetG>> }

\* defaultOptions with addGitIgnore: the option named by addGitIgnore is
\* defined by defaultOptions in the last one only.
OptionChoices ==
    { [defaultOptions |-> Object(RcName :> Array(<< <<"y">> >>)),
       addGitIgnore |-> Undefined],
      [defaultOptions |-> Object(RcName :> Array(<< <<"y">> >>)),
       addGitIgnore |-> String(IgnoresName)],
      [defaultOptions |-> Object((RcName :> Array(<< <<"y">> >>))
                                   @@ (IgnoresName :> Array(<< <<"d">> >>))),
       addGitIgnore |-> String(IgnoresName)] }

SetupOptions ==
    { [task |-> t, defaultOptions |-> c.defaultOptions, targets |-> l,
       addGitIgnore |-> c.addGitIgnore] :
        t \in Tasks, c \in OptionChoices, l \in TargetLists }

Init ==
    /\ Idle
    /\ cliTasks \in SetupQueues
    /\ defaultTask \in SetupDefaultTasks
    /\ mergeArrays \in {"index", "replace"}
    /\ configData = InitConfig
    /\ gitignore \in SetupFiles
    /\ workTree = <<>>

Next ==
    /\ nCalls < MaxSetupCalls
    /\ \E options \in SetupOptions : SetupMultitaskConfig(options)

Spec == Init /\ [][Next]_vars

\* The targets of the last call, other than "all", that checkTaskInQueue
\* reports as queued.
QueuedTargets ==
    { t \in { arg.targets[i] : i \in DOMAIN arg.targets } \ {AllName} :
        checkTaskInQueue(Grunt, TaskTarget(arg.task, t)) = [threw |-> FALSE, value |-> TRUE] }

\* The configuration the last call built for its task.
BuiltConfig == ret.taskConfig.v[arg.task].v

IgnorePath == <<arg.task, OptionsName>> \o PathKeys(arg.addGitIgnore.v)

C3_ThunksOnceAndOnlyQueued ==
    op = "setupMultitaskConfig" =>
        /\ \A i, j \in DOMAIN ret.calls : ret.calls[i] = ret.calls[j] => i = j
        /\ \A i \in DOMAIN ret.calls :
             \/ ret.calls[i] \in QueuedTargets
             \/ ret.calls[i] = AllName /\ QueuedTargets = {}

C3_Witness ==
    /\ op = "setupMultitaskConfig"
    /\ ~ret.threw
    /\ ret.calls = <<TargetM>>
    /\ Len(arg.targets) = 3

\* C9 as stated: after a call with addGitIgnore the option holds its value
\* from before the call followed by the memoized .gitignore entries,
\* whatever defaultOptions is.
C9_IgnoresAppended ==
    (op = "setupMultitaskConfig" /\ ~ret.threw /\ Truthy(arg.addGitIgnore)) =>
        GetKeys(configData, IgnorePath)
          = Array(OrEmptyArray(GetKeys(ret.before, IgnorePath)).v \o ignoreList.v)

\* C9 amended: the same, for calls whose defaultOptions does not define the
\* option named by addGitIgnore.
C9_IgnoresAppendedUnlessDefault ==
    (/\ op = "setupMultitaskConfig" /\ ~ret.threw /\ Truthy(arg.addGitIgnore)
     /\ GetKeys(arg.defaultOptions, PathKeys(arg.addGitIgnore.v)) = Undefined) =>
        /\ ignoreList.kind = "array"
        /\ GetKeys(configData, IgnorePath)
             = Array(OrEmptyArray(GetKeys(ret.before, IgnorePath)).v \o ignoreList.v)

C9_Witness ==
    /\ op = "setupMultitaskConfig" /\ ~ret.threw /\ Truthy(arg.addGitIgnore)
    /\ GetKeys(arg.defaultOptions, PathKeys(arg.addGitIgnore.v)) = Undefined
    /\ GetKeys(ret.before, IgnorePath) = Array(<< <<"l">> >>)
    /\ GetKeys(configData, IgnorePath) = Array(<< <<"l">>, <<"n">>, <<"b">> >>)

\* C10: a call for task X changes no entry of another task, no entry of X
\* that the config it built does not hold, and no option of X that
\* defaultOptions does not name, the addGitIgnore option apart.
C10_OthersUntouched ==
    op = "setupMultitaskConfig" =>
        /\ \A t \in DOMAIN ret.before.v :
             t # arg.task => GetProp(configData, t) = ret.before.v[t]
        /\ \A k \in DOMAIN Props(GetProp(ret.before, arg.task)) :
             (k # OptionsName /\ (ret.threw \/ k \notin DOMAIN BuiltConfig))
               => GetKeys(configData, <<arg.task, k>>) = GetKeys(ret.before, <<arg.task, k>>)
        /\ \A o \in DOMAIN Props(GetKeys(ret.before, <<arg.task, OptionsName>>)) :
             (\/ ret.threw
              \/ /\ o \notin DOMAIN Props(arg.defaultOptions)
                 /\ ~(Truthy(arg.addGitIgnore) /\ o = arg.addGitIgnore.v))
               => GetKeys(configData, <<arg.task, OptionsName, o>>)
                    = GetKeys(ret.before, <<arg.task, OptionsName, o>>)

C10_Witness ==
    /\ op = "setupMultitaskConfig" /\ ~ret.threw
    /\ nCalls = 2
    /\ arg.task = TaskJ
    /\ TaskK \in DOMAIN ret.before.v
    /\ TargetM \notin DOMAIN BuiltConfig
    /\ GetKeys(configData, <<TaskJ, TargetM>>) = String(<<"o", "l", "d">>)
    /\ arg.defaultOptions = Object(RcName :> Array(<< <<"y">> >>))
    /\ Truthy(arg.addGitIgnore)
    /\ GetKeys(configData, <<TaskK, OptionsName, IgnoresName>>)
         = Array(<< <<"n">>, <<"b">> >>)

====
